---------------------------- MODULE Spec2Model ----------------------------
(***************************************************************************)
(* Model of the Talabat token harvester.                                   *)
(*   src/index.js          cookie-based program: SETUP mode and AUTO mode  *)
(*   src/unnamed/part_000  credential program (email/password login)       *)
(* The browser engine, the file system and the spreadsheet service are     *)
(* external: each call into them either succeeds or throws, chosen         *)
(* nondeterministically.                                                   *)
(***************************************************************************)
EXTENDS Integers, Sequences, FiniteSets, TLC

VARIABLES
  prog,        \* which program/mode runs: "setup", "auto" (index.js), "cred" (part_000)
  cfg,         \* process.env: which required configuration values are present
  mpc,         \* position of main()
  browser,     \* "none" | "open" | "closed": the launched browser
  mainBrowser, \* main's local `browser` is assigned (retryOperation returned it)
  mainErr,     \* the error caught by main's catch block (message fragments)
  token,       \* main's local `token`
  exitCode,    \* -1 while the process runs, else the code given to process.exit
  advised,     \* main's catch block printed the advice to run SETUP MODE
  rCtx,        \* retryOperation: the `context` label of the running call
  rState,      \* retryOperation: "idle" | "call" | "sleep" | "next" | "returned" | "thrown"
  attempt,     \* retryOperation: loop variable `attempt`
  lastError,   \* retryOperation: local `lastError`
  rValue,      \* value retryOperation returned / error it threw
  rHist,       \* history: "ok" or "fail" for every invocation of the operation in this call
  lastFail,    \* history: the error of the most recent failed invocation in this call
  rDelays,     \* history: every sleep(delay) performed by this call
  rExpired,    \* history: how many invocations in this call failed with 'Session expired'
  apc,         \* position inside the running operation (capture attempt, setup, publish)
  aResult,     \* pending completion of the attempt while its finally block runs
  pageNo,      \* number of pages opened so far; the current attempt's page id
  openPages,   \* ids of the pages that are open
  listening,   \* a response listener is subscribed on the current page
  navigated,   \* a navigation has been issued on the current page
  missed,      \* history: a response occurred on a page with no listener attached
  captured,    \* the closure variable capturedToken of the current attempt
  pending,     \* listener callbacks suspended in `await response.json()`
  firstObs,    \* history: the first access_token the listener of this attempt read from a body
  nResp,       \* number of responses produced so far in this run
  isLoggedIn,  \* local isLoggedIn of the attempt
  pollI,       \* loop variable i of the token wait loop
  navFailed,   \* history: a navigation of the current attempt timed out
  trail,       \* history: the steps the current attempt has performed
  capturedOn,  \* history: the page whose response supplied the value of capturedToken
  file,        \* the durable session file ./session-cookies.json
  pageCookies, \* the cookies of the current page
  sheet,       \* the two cells of the spreadsheet range
  nPublish,    \* number of successful sheet updates
  vtToken,     \* validateToken check: the candidate
  vtResult,    \* validateToken check: its outcome
  lcInput,     \* loadCookies check: outcome of page.setCookie chosen for the call
  lcResult     \* loadCookies check: its outcome

vars == << prog, cfg, mpc, browser, mainBrowser, mainErr, token, exitCode, advised,
           rCtx, rState, attempt, lastError, rValue, rHist, lastFail, rDelays, rExpired,
           apc, aResult, pageNo, openPages, listening, navigated, missed,
           captured, pending, firstObs, nResp, isLoggedIn, pollI, navFailed,
           trail, capturedOn,
           file, pageCookies, sheet, nPublish,
           vtToken, vtResult, lcInput, lcResult >>

mainVars == << prog, cfg, mpc, browser, mainBrowser, mainErr, token, exitCode, advised >>
retryVars == << rCtx, rState, attempt, lastError, rValue, rHist, lastFail, rDelays,
               rExpired >>
attemptVars == << apc, aResult >>
pageVars == << pageNo, openPages, listening, navigated >>
netVars == << missed, captured, pending, firstObs, nResp, capturedOn >>
flowVars == << isLoggedIn, pollI, navFailed, trail >>
storeVars == << file, pageCookies >>
sheetVars == << sheet, nPublish >>
pureVars == << vtToken, vtResult, lcInput, lcResult >>

-----------------------------------------------------------------------------
(* Bounds of the model *)

MaxLen == 6          \* longest candidate string given to validateToken
MaxCookies == 3      \* longest cookie list in the session file
Now == 5             \* Date.now() / 1000 at load time
MaxResponses == 1    \* network responses produced in one run
MaxAttemptResponses == 2  \* network responses produced in one attempt checked alone

(* Program constants *)

maxAttempts == 3     \* CONFIG.retry.maxAttempts
delayMs == 2000      \* CONFIG.retry.delayMs
PollLimitAuto == 30  \* for (let i = 0; i < 30; i++)   index.js
PollLimitCred == 20  \* for (let i = 0; i < 20; i++)   part_000
PollSleepMs == 500    \* await sleep(500) in the token wait loop

-----------------------------------------------------------------------------
(* JavaScript values that can reach validateToken or the token slot.       *)
(* t is the typeof class, s the characters of a string, n a number.        *)

Chars == {"e", "y", "J", ".", "a"}

Str(s) == [t |-> "string", s |-> s, n |-> 0]
Num(n) == [t |-> "number", s |-> <<>>, n |-> n]
Null == [t |-> "null", s |-> <<>>, n |-> 0]
Undefined == [t |-> "undefined", s |-> <<>>, n |-> 0]
Obj == [t |-> "object", s |-> <<>>, n |-> 0]
JSTrue == [t |-> "boolean", s |-> <<>>, n |-> 1]

\* JavaScript truthiness: ToBoolean
Truthy(v) ==
  CASE v.t = "string" -> Len(v.s) > 0
    [] v.t = "number" -> v.n # 0
    [] v.t = "boolean" -> v.n # 0
    [] v.t = "object" -> TRUE
    [] OTHER -> FALSE

\* String.prototype.startsWith
StartsWith(s, p) ==
  /\ Len(s) >= Len(p)
  /\ \A i \in 1..Len(p) : s[i] = p[i]

\* String.prototype.split(sep) for a one-character separator: the segments
RECURSIVE SplitFrom(_, _, _, _)
SplitFrom(s, sep, i, cur) ==
  IF i > Len(s) THEN << cur >>
  ELSE IF s[i] = sep THEN << cur >> \o SplitFrom(s, sep, i + 1, <<>>)
  ELSE SplitFrom(s, sep, i + 1, Append(cur, s[i]))

Split(s, sep) == SplitFrom(s, sep, 1, <<>>)

(* Error messages are sequences of text fragments; a raised error is its   *)
(* message.                                                                *)
MsgTokenEmpty == << "Token is empty or not a string" >>
MsgBadPrefix == << "Invalid JWT format (must start with \"eyJ\")" >>
MsgBadStructure == << "Invalid JWT structure (must have 3 parts)" >>

Returned(v) == [kind |-> "return", val |-> v, err |-> <<>>]
Threw(e) == [kind |-> "throw", val |-> Null, err |-> e]

JwtPrefix == << "e", "y", "J" >>

\* variant: any count of at least three segments is accepted
validateTokenNoCount(tok) ==
  IF ~Truthy(tok) \/ tok.t # "string" THEN Threw(MsgTokenEmpty)
  ELSE IF ~StartsWith(tok.s, JwtPrefix) THEN Threw(MsgBadPrefix)
  ELSE IF Len(Split(tok.s, ".")) < 3 THEN Threw(MsgBadStructure)
  ELSE Returned(JSTrue)

\* validateToken: returns true or throws
validateToken(tok) ==
  IF ~Truthy(tok) \/ tok.t # "string" THEN Threw(MsgTokenEmpty)
  ELSE IF ~StartsWith(tok.s, JwtPrefix) THEN Threw(MsgBadPrefix)
  ELSE IF Len(Split(tok.s, ".")) # 3 THEN Threw(MsgBadStructure)
  ELSE Returned(JSTrue)

-----------------------------------------------------------------------------
(* Session file and cookies *)

\* A cookie record: `expires` may be absent (hasExp = FALSE)
Cookie(v, h, e) == [value |-> v, hasExp |-> h, expires |-> e]

ExpiresValues == {-1, 0, Now - 1, Now + 1}

CookieRecords(vals) ==
  { Cookie(v, FALSE, 0) : v \in vals } \cup
  { Cookie(v, TRUE, e) : v \in vals, e \in ExpiresValues }

RECURSIVE SeqsUpTo(_, _)
SeqsUpTo(S, n) ==
  IF n = 0 THEN { <<>> }
  ELSE LET shorter == SeqsUpTo(S, n - 1)
       IN shorter \cup { Append(s, x) : s \in { q \in shorter : Len(q) = n - 1 }, x \in S }

\* What the session file can hold
FileAbsent == [kind |-> "absent", cookies |-> <<>>]
FileUnreadable == [kind |-> "unreadable", cookies |-> <<>>]
FileBadJson == [kind |-> "badjson", cookies |-> <<>>]
FileNull == [kind |-> "null", cookies |-> <<>>]
FileObject == [kind |-> "object", cookies |-> <<>>]
FileArray(cs) == [kind |-> "array", cookies |-> cs]

\* the filter callback's test: cookie.expires && cookie.expires < now
\* (an absent `expires` and the number 0 are both falsy)
CookieSkipped(c, now) == (c.hasExp /\ c.expires # 0) /\ c.expires < now

\* cookies.filter(cookie => ...): the records not skipped, in stored order
RECURSIVE FilterValid(_, _)
FilterValid(cs, now) ==
  IF cs = <<>> THEN <<>>
  ELSE IF CookieSkipped(Head(cs), now) THEN FilterValid(Tail(cs), now)
  ELSE << Head(cs) >> \o FilterValid(Tail(cs), now)

LoadOutcome(k, r, inst) == [kind |-> k, ret |-> r, installed |-> inst]

\* the statements inside loadCookies' outer try block
loadCookiesTry(f, setOk) ==
  IF f.kind = "absent" THEN LoadOutcome("return", FALSE, <<>>)
  ELSE IF f.kind \in {"unreadable", "badjson"} THEN LoadOutcome("throw", FALSE, <<>>)
  ELSE IF f.kind = "null" \/ (f.kind = "array" /\ Len(f.cookies) = 0)
       THEN LoadOutcome("return", FALSE, <<>>)
  ELSE IF f.kind = "object" THEN LoadOutcome("throw", FALSE, <<>>)
  ELSE LET validCookies == FilterValid(f.cookies, Now)
       IN IF Len(validCookies) = 0 THEN LoadOutcome("return", FALSE, <<>>)
          ELSE IF setOk THEN LoadOutcome("return", TRUE, validCookies)
          ELSE LoadOutcome("throw", FALSE, <<>>)

\* variant: the records are installed before the filtered list is tested
loadCookiesInstallFirst(f, setOk) ==
  LET body == loadCookiesTry(f, setOk)
  IN IF body.kind = "throw" THEN LoadOutcome("return", FALSE, body.installed)
     ELSE IF f.kind = "array" /\ setOk /\ ~body.ret
          THEN LoadOutcome("return", FALSE, f.cookies)
     ELSE body

\* page.setCookie(...cookies) on the browser's cookie jar: the installed
\* records replace the jar's records of the same name; no record, no change
ApplyInstall(jar, inst) == IF inst = <<>> THEN jar ELSE inst

\* loadCookies: the outer catch turns every exception into `return false`.
\* installed: the records a successful page.setCookie call put into the page
loadCookies(f, setOk) ==
  LET body == loadCookiesTry(f, setOk)
  IN IF body.kind = "throw" THEN LoadOutcome("return", FALSE, body.installed)
     ELSE body

-----------------------------------------------------------------------------
(* The state in which main() has not started; the checks of the pure       *)
(* functions keep the program in it.                                       *)

NoResult == [kind |-> "none", val |-> Null, err |-> <<>>]
NoLoad == LoadOutcome("none", FALSE, <<>>)
EmptySheet == [a1 |-> Null, b1 |-> "empty", mode |-> "none"]

ProgramAtStart ==
  /\ mpc = "begin" /\ browser = "none" /\ mainBrowser = FALSE
  /\ mainErr = <<>> /\ token = Null /\ exitCode = -1 /\ advised = FALSE
  /\ rCtx = "none" /\ rState = "idle" /\ attempt = 0 /\ lastError = <<>>
  /\ rValue = NoResult /\ rHist = <<>> /\ lastFail = <<>> /\ rDelays = <<>>
  /\ rExpired = 0
  /\ apc = "none" /\ aResult = NoResult
  /\ pageNo = 0 /\ openPages = {} /\ listening = FALSE /\ navigated = FALSE
  /\ missed = FALSE /\ captured = Null /\ pending = {} /\ firstObs = Null
  /\ nResp = 0 /\ isLoggedIn = FALSE /\ pollI = 0 /\ navFailed = FALSE
  /\ trail = {} /\ capturedOn = 0
  /\ pageCookies = <<>>
  /\ sheet = EmptySheet /\ nPublish = 0

AllOk == [acct |-> TRUE, sheet |-> TRUE, creds |-> TRUE]

-----------------------------------------------------------------------------
(* validateToken applied to every candidate up to MaxLen characters *)

Candidates ==
  { Str(s) : s \in SeqsUpTo(Chars, MaxLen) } \cup { Null, Undefined, Num(0), Num(42), Obj }

InitValidate ==
  /\ ProgramAtStart
  /\ prog = "auto" /\ cfg = AllOk /\ file = FileAbsent
  /\ vtToken \in Candidates
  /\ vtResult = NoResult
  /\ lcInput = FALSE /\ lcResult = NoLoad

\* a call validateToken(vtToken)
ValidateCall ==
  /\ vtResult.kind = "none"
  /\ vtResult' = validateToken(vtToken)
  /\ UNCHANGED << mainVars, retryVars, attemptVars, pageVars, netVars, flowVars,
                  storeVars, sheetVars, vtToken, lcInput, lcResult >>

SpecValidate == InitValidate /\ [][ValidateCall]_vars

-----------------------------------------------------------------------------
(* loadCookies applied to every session file up to MaxCookies records *)

Files ==
  { FileAbsent, FileUnreadable, FileBadJson, FileNull, FileObject } \cup
  { FileArray(cs) : cs \in SeqsUpTo(CookieRecords({"v"}), MaxCookies) }

InitLoad ==
  /\ ProgramAtStart
  /\ prog = "auto" /\ cfg = AllOk
  /\ file \in Files
  /\ lcInput \in BOOLEAN
  /\ lcResult = NoLoad
  /\ vtToken = Null /\ vtResult = NoResult

\* a call loadCookies(page) on a page that holds no cookie;
\* lcInput: page.setCookie would succeed
LoadCall ==
  /\ lcResult.kind = "none"
  /\ lcResult' = loadCookies(file, lcInput)
  /\ pageCookies' = ApplyInstall(pageCookies, lcResult'.installed)
  /\ UNCHANGED << mainVars, retryVars, attemptVars, pageVars, netVars, flowVars,
                  file, sheetVars, vtToken, vtResult, lcInput >>

SpecLoad == InitLoad /\ [][LoadCall]_vars

-----------------------------------------------------------------------------
(* Error messages raised by the program and by the external services *)

MsgLaunch == << "Failed to launch the browser process" >>
MsgTarget == << "Protocol error: Target closed" >>
MsgNavTimeout == << "Navigation timeout of 60000 ms exceeded" >>
MsgSelector == << "Waiting for selector failed: timeout exceeded" >>
MsgCookies == << "Failed to load cookies. Please run SETUP MODE first." >>
MsgExpired == << "Session expired. Please run SETUP MODE again to refresh cookies." >>
MsgAutofill == << "Auto-fill login failed. Browser may not have saved credentials." >>
MsgNotCaptured == << "Token was not captured from network traffic" >>
MsgNoLogin == << "Login not detected. Please ensure you logged in successfully." >>
MsgNoAccount == << "Missing GOOGLE_SERVICE_ACCOUNT environment variable" >>
MsgNoSheetId == << "Missing SHEET_ID environment variable" >>
MsgNoCreds == << "Missing PORTAL_EMAIL or PORTAL_PASSWORD environment variables" >>
MsgSheetApi == << "The caller does not have permission" >>

-----------------------------------------------------------------------------
(* retryOperation *)

RECURSIVE Pow2(_)
Pow2(n) == IF n <= 0 THEN 1 ELSE 2 * Pow2(n - 1)

\* variant: the exponent is the attempt number
RetryDelayOffByOne(att) == delayMs * Pow2(att)

\* const delay = CONFIG.retry.delayMs * Math.pow(2, attempt - 1)
RetryDelay(att) == delayMs * Pow2(att - 1)

\* if (attempt < CONFIG.retry.maxAttempts) { ... await sleep(delay) }
AfterCatch(att) == IF att < maxAttempts THEN "sleep" ELSE "next"

\* variant: only the first failure is remembered
CaughtErrorFirst(prev, e) == IF prev = <<>> THEN e ELSE prev

\* lastError = error
CaughtError(prev, e) == e

\* variant: the loop test is attempt <= maxAttempts + 1
LoopContinuesOnceMore(att) == att <= maxAttempts + 1

\* attempt <= CONFIG.retry.maxAttempts
LoopContinues(att) == att <= maxAttempts

\* variant: the loop falls through and the function returns undefined
ExhaustedSilent(ctx, last) == Returned(Undefined)

\* throw new Error(`${context} failed after ${maxAttempts} attempts: ${lastError.message}`)
Exhausted(ctx, last) == Threw(<< ctx, "failed after 3 attempts:" >> \o last)

\* the first statement of the operation each context runs
OpEntry(ctx) ==
  CASE ctx = "Browser Init" -> "launch"
    [] ctx = "Token Capture" -> "newPage"
    [] ctx = "Sheet Update" -> "update"

\* a call retryOperation(operation, ctx) reaches its first invocation
RetryBegin(ctx) ==
  /\ rCtx' = ctx
  /\ rState' = "call"
  /\ attempt' = 1
  /\ lastError' = <<>>
  /\ rValue' = NoResult
  /\ rHist' = <<>>
  /\ lastFail' = <<>>
  /\ rDelays' = <<>>
  /\ rExpired' = 0
  /\ apc' = OpEntry(ctx)

\* return await operation()
OpReturn(v) ==
  /\ rState' = "returned"
  /\ rValue' = Returned(v)
  /\ rHist' = Append(rHist, "ok")
  /\ UNCHANGED << rCtx, attempt, lastError, lastFail, rDelays, rExpired >>

\* catch (error): the operation threw e
OpThrow(e) ==
  /\ lastError' = CaughtError(lastError, e)
  /\ rHist' = Append(rHist, "fail")
  /\ lastFail' = e
  /\ rState' = AfterCatch(attempt)
  /\ rExpired' = IF e = MsgExpired THEN rExpired + 1 ELSE rExpired
  /\ UNCHANGED << rCtx, attempt, rValue, rDelays >>

OpDeliver(res) == IF res.kind = "return" THEN OpReturn(res.val) ELSE OpThrow(res.err)

\* await sleep(delay)
RetrySleep ==
  /\ exitCode = -1
  /\ rState = "sleep"
  /\ rDelays' = Append(rDelays, RetryDelay(attempt))
  /\ rState' = "next"
  /\ UNCHANGED << rCtx, attempt, lastError, rValue, rHist, lastFail, rExpired >>
  /\ UNCHANGED << mainVars, attemptVars, pageVars, netVars, flowVars, storeVars,
                  sheetVars, pureVars >>

\* attempt++ and the loop test; after the loop the terminal error
RetryNext ==
  /\ exitCode = -1
  /\ rState = "next"
  /\ attempt' = attempt + 1
  /\ IF LoopContinues(attempt')
       THEN /\ rState' = "call"
            /\ apc' = OpEntry(rCtx)
            /\ UNCHANGED rValue
       ELSE /\ rValue' = Exhausted(rCtx, lastError)
            /\ rState' = IF rValue'.kind = "throw" THEN "thrown" ELSE "returned"
            /\ UNCHANGED apc
  /\ UNCHANGED << rCtx, lastError, rHist, lastFail, rDelays, rExpired, aResult >>
  /\ UNCHANGED << mainVars, pageVars, netVars, flowVars, storeVars, sheetVars, pureVars >>

Running(ctx, at) == exitCode = -1 /\ rState = "call" /\ rCtx = ctx /\ apc = at

-----------------------------------------------------------------------------
(* initBrowser and updateSheet *)

\* initBrowser: puppeteer.launch
InitBrowser ==
  /\ Running("Browser Init", "launch")
  /\ \/ browser' = "open" /\ OpReturn(Obj)
     \/ browser' = browser /\ OpThrow(MsgLaunch)
  /\ UNCHANGED << prog, cfg, mpc, mainBrowser, mainErr, token, exitCode, advised >>
  /\ UNCHANGED << attemptVars, pageVars, netVars, flowVars, storeVars, sheetVars, pureVars >>

\* values: [[token, timestamp]] written to CONFIG.sheet.range with RAW mode
SheetWrite(tok) == [a1 |-> tok, b1 |-> "ISO-8601", mode |-> "RAW"]

\* updateSheet(token): getGoogleAuth, then spreadsheets.values.update
UpdateSheet ==
  /\ Running("Sheet Update", "update")
  /\ \/ /\ sheet' = SheetWrite(token)
        /\ nPublish' = nPublish + 1
        /\ OpReturn(Obj)
     \/ /\ UNCHANGED sheetVars
        /\ OpThrow(MsgSheetApi)
  /\ UNCHANGED << mainVars, attemptVars, pageVars, netVars, flowVars, storeVars, pureVars >>

-----------------------------------------------------------------------------
(* main *)

retryIdle ==
  /\ rState' = "idle"
  /\ UNCHANGED << rCtx, attempt, lastError, rValue, rHist, lastFail, rDelays, rExpired >>

\* an error reaches main's catch block
MainThrow(e) ==
  /\ mpc' = "catch"
  /\ mainErr' = e
  /\ UNCHANGED advised

\* variant: the SHEET_ID check is missing
ConfigErrorAutoNoSheetCheck(c) ==
  IF ~c.acct THEN MsgNoAccount
  ELSE <<>>

\* index.js: the environment checks of AUTO mode, in source order
ConfigErrorAuto(c) ==
  IF ~c.acct THEN MsgNoAccount
  ELSE IF ~c.sheet THEN MsgNoSheetId
  ELSE <<>>

\* part_000: the environment checks at the head of main, in source order
ConfigErrorCred(c) ==
  IF ~c.creds THEN MsgNoCreds
  ELSE IF ~c.acct THEN MsgNoAccount
  ELSE IF ~c.sheet THEN MsgNoSheetId
  ELSE <<>>

\* index.js main: browser = await retryOperation(() => initBrowser(), 'Browser Init')
MainBegin ==
  /\ exitCode = -1 /\ mpc = "begin" /\ prog \in {"setup", "auto"}
  /\ mpc' = "launch"
  /\ RetryBegin("Browser Init")
  /\ UNCHANGED << prog, cfg, browser, mainBrowser, mainErr, token, exitCode, advised >>
  /\ UNCHANGED << aResult, pageVars, netVars, flowVars, storeVars, sheetVars, pureVars >>

\* part_000 main: environment checks, then the browser launch through retryOperation
MainBeginCred ==
  /\ exitCode = -1 /\ mpc = "begin" /\ prog = "cred"
  /\ IF ConfigErrorCred(cfg) # <<>>
       THEN /\ MainThrow(ConfigErrorCred(cfg))
            /\ UNCHANGED << retryVars, apc >>
       ELSE /\ mpc' = "launch"
            /\ RetryBegin("Browser Init")
            /\ UNCHANGED << mainErr, advised >>
  /\ UNCHANGED << prog, cfg, browser, mainBrowser, token, exitCode >>
  /\ UNCHANGED << aResult, pageVars, netVars, flowVars, storeVars, sheetVars, pureVars >>

\* retryOperation('Browser Init') returned: the mode branch of main
MainLaunched ==
  /\ exitCode = -1 /\ mpc = "launch" /\ rState = "returned"
  /\ mainBrowser' = TRUE
  /\ IF prog = "setup"
       THEN /\ mpc' = "setup"
            /\ apc' = "newPage"
            /\ retryIdle
            /\ UNCHANGED << mainErr, advised >>
       ELSE IF prog = "auto" /\ ConfigErrorAuto(cfg) # <<>>
       THEN /\ MainThrow(ConfigErrorAuto(cfg))
            /\ retryIdle
            /\ UNCHANGED apc
       ELSE /\ mpc' = "capture"
            /\ RetryBegin("Token Capture")
            /\ UNCHANGED << mainErr, advised >>
  /\ UNCHANGED << prog, cfg, browser, token, exitCode >>
  /\ UNCHANGED << aResult, pageVars, netVars, flowVars, storeVars, sheetVars, pureVars >>

\* retryOperation('Token Capture') returned: token is assigned, the publish starts
MainCaptured ==
  /\ exitCode = -1 /\ mpc = "capture" /\ rState = "returned"
  /\ token' = rValue.val
  /\ mpc' = "publish"
  /\ RetryBegin("Sheet Update")
  /\ UNCHANGED << prog, cfg, browser, mainBrowser, mainErr, exitCode, advised >>
  /\ UNCHANGED << aResult, pageVars, netVars, flowVars, storeVars, sheetVars, pureVars >>

\* retryOperation('Sheet Update') returned
MainPublished ==
  /\ exitCode = -1 /\ mpc = "publish" /\ rState = "returned"
  /\ mpc' = "success"
  /\ retryIdle
  /\ UNCHANGED << prog, cfg, browser, mainBrowser, mainErr, token, exitCode, advised >>
  /\ UNCHANGED << attemptVars, pageVars, netVars, flowVars, storeVars, sheetVars, pureVars >>

\* a retryOperation call of main threw its terminal error
MainRetryFailed ==
  /\ exitCode = -1 /\ mpc \in {"launch", "capture", "publish"} /\ rState = "thrown"
  /\ MainThrow(rValue.err)
  /\ retryIdle
  /\ UNCHANGED << prog, cfg, browser, mainBrowser, token, exitCode >>
  /\ UNCHANGED << attemptVars, pageVars, netVars, flowVars, storeVars, sheetVars, pureVars >>

\* String.prototype.includes on one fragment of an error message, for the two
\* words main looks for ('cookies' is matched case-sensitively)
Includes(frag, word) ==
  CASE word = "cookies" -> frag \in { MsgCookies[1], MsgExpired[1] }
    [] word = "Session expired" -> frag \in { MsgExpired[1] }
    [] OTHER -> FALSE

\* variant: only the bare 'Session expired' message is recognised
PrintsAdviceExactMessage(e) == e = MsgExpired

\* index.js, catch block of main:
\* error.message.includes('cookies') || error.message.includes('Session expired')
PrintsAdvice(e) ==
  \E i \in 1..Len(e) : Includes(e[i], "cookies") \/ Includes(e[i], "Session expired")

ExitBody(code) ==
  /\ exitCode' = code
  /\ mpc' = "exited"
  /\ UNCHANGED << prog, cfg, browser, mainBrowser, mainErr, token >>
  /\ UNCHANGED << retryVars, attemptVars, pageVars, netVars, flowVars, storeVars,
                  sheetVars, pureVars >>

\* process.exit(0) at the end of the try block.  process.exit ends the
\* process at once: the finally block of main (browser.close()) is not run.
MainExitSuccess ==
  /\ exitCode = -1 /\ mpc = "success"
  /\ ExitBody(0)
  /\ UNCHANGED advised

\* the catch block of main: diagnostics, then process.exit(1); the finally
\* block of main is not run either.
MainExitFailure ==
  /\ exitCode = -1 /\ mpc = "catch"
  /\ advised' = (prog # "cred" /\ PrintsAdvice(mainErr))
  /\ ExitBody(1)

-----------------------------------------------------------------------------
(* One capture attempt: captureTokenWithCookies (index.js, AUTO mode) and  *)
(* captureToken (part_000).  apc is the statement the attempt has reached. *)

InCapture(at) == Running("Token Capture", at)

\* a throw inside the try block: control goes to the finally block
Fail(e) == aResult' = Threw(e) /\ apc' = "finally"

Step(at) == apc' = at /\ UNCHANGED aResult

mainSame == UNCHANGED mainVars

\* the attempt's function returns or throws: its locals go out of scope
LocalsDiscarded ==
  /\ captured' = Null /\ firstObs' = Null /\ capturedOn' = 0
  /\ isLoggedIn' = FALSE /\ pollI' = 0 /\ navFailed' = FALSE /\ trail' = {}

\* variant: the loop test is i <= limit
PollLimitOneMore == IF prog = "auto" THEN PollLimitAuto + 1 ELSE PollLimitCred + 1

\* the bound of the wait loop of the running program
PollLimit == IF prog = "auto" THEN PollLimitAuto ELSE PollLimitCred

\* const page = await browser.newPage()
CaptureNewPage ==
  /\ InCapture("newPage")
  /\ \/ /\ pageNo' = pageNo + 1
        /\ openPages' = openPages \cup {pageNo + 1}
        /\ listening' = FALSE
        /\ navigated' = FALSE
        /\ Step("pageSetup")
        /\ UNCHANGED retryVars
     \/ /\ OpThrow(MsgTarget)
        /\ UNCHANGED << pageVars, attemptVars >>
  /\ mainSame
  /\ UNCHANGED << netVars, flowVars, storeVars, sheetVars, pureVars >>

\* variant: the listener is not subscribed before the try block
CapturePageSetupNoListener ==
  /\ InCapture("pageSetup")
  /\ \/ /\ captured' = Null
        /\ firstObs' = Null
        /\ listening' = FALSE
        /\ capturedOn' = 0
        /\ isLoggedIn' = FALSE /\ pollI' = 0 /\ navFailed' = FALSE /\ trail' = {}
        /\ Step(IF prog = "auto" THEN "load" ELSE "goto")
        /\ UNCHANGED << retryVars, missed, pending, nResp >>
     \/ /\ OpThrow(MsgTarget)
        /\ UNCHANGED << attemptVars, listening, netVars, flowVars >>
  /\ mainSame
  /\ UNCHANGED << pageNo, openPages, navigated, storeVars, sheetVars, pureVars >>

\* setViewport and setUserAgent, which precede the try block: a throw here
\* leaves the function without running its finally block.  Then
\* let capturedToken = null and page.on('response', ...)
CapturePageSetup ==
  /\ InCapture("pageSetup")
  /\ \/ /\ captured' = Null
        /\ firstObs' = Null
        /\ listening' = TRUE
        /\ capturedOn' = 0
        /\ isLoggedIn' = FALSE /\ pollI' = 0 /\ navFailed' = FALSE /\ trail' = {}
        /\ Step(IF prog = "auto" THEN "load" ELSE "goto")
        /\ UNCHANGED << retryVars, missed, pending, nResp >>
     \/ /\ OpThrow(MsgTarget)
        /\ UNCHANGED << attemptVars, listening, netVars, flowVars >>
  /\ mainSame
  /\ UNCHANGED << pageNo, openPages, navigated, storeVars, sheetVars, pureVars >>

\* variant: the result of loadCookies is not tested
CaptureLoadCookiesProceeds ==
  /\ InCapture("load")
  /\ \E setOk \in BOOLEAN :
       LET r == loadCookies(file, setOk)
       IN /\ pageCookies' = ApplyInstall(pageCookies, r.installed)
          /\ trail' = IF r.ret THEN trail ELSE trail \cup {"loadFalse"}
          /\ Step("goto")
  /\ mainSame
  /\ UNCHANGED << retryVars, pageVars, netVars, isLoggedIn, pollI, navFailed, file,
                  sheetVars, pureVars >>

\* Step 1 of captureTokenWithCookies: loadCookies(page), and the throw on false
CaptureLoadCookies ==
  /\ InCapture("load")
  /\ \E setOk \in BOOLEAN :
       LET r == loadCookies(file, setOk)
       IN /\ pageCookies' = ApplyInstall(pageCookies, r.installed)
          /\ IF r.kind = "throw" THEN Fail(MsgTarget) /\ UNCHANGED trail
             ELSE IF ~r.ret THEN Fail(MsgCookies) /\ trail' = trail \cup {"loadFalse"}
             ELSE Step("goto") /\ UNCHANGED trail
  /\ mainSame
  /\ UNCHANGED << retryVars, pageVars, netVars, isLoggedIn, pollI, navFailed, file,
                  sheetVars, pureVars >>

\* page.goto(CONFIG.portal.url, ...) and the sleep that follows it
CaptureGoto ==
  /\ InCapture("goto")
  /\ navigated' = TRUE
  /\ \/ /\ Step(IF prog = "auto" THEN "verify" ELSE "checkLogin")
        /\ UNCHANGED navFailed
     \/ /\ Fail(MsgNavTimeout)
        /\ navFailed' = TRUE
  /\ mainSame
  /\ UNCHANGED << retryVars, pageNo, openPages, listening, netVars, isLoggedIn, pollI,
                  trail, storeVars, sheetVars, pureVars >>

\* Step 3: verifyCookiesValid(page).  Its own try/catch turns a navigation
\* timeout and an evaluate failure into `return false`.
CaptureVerify ==
  /\ InCapture("verify")
  /\ \E out \in {"loggedIn", "loggedOut", "navTimeout", "evalError"} :
       /\ isLoggedIn' = (out = "loggedIn")
       /\ navFailed' = (navFailed \/ out = "navTimeout")
       /\ trail' = IF out = "loggedIn" THEN trail ELSE trail \cup {"verifyFalse"}
  /\ Step(IF isLoggedIn' THEN "logout" ELSE "expiryProbe")
  /\ mainSame
  /\ UNCHANGED << retryVars, pageVars, netVars, pollI, storeVars, sheetVars, pureVars >>

\* variant: after the probing click the attempt goes on to the logout-login cycle
CaptureExpiryProbeRecovers ==
  /\ InCapture("expiryProbe")
  /\ \E out \in {"clicked", "notFound", "evalError"} :
       CASE out = "clicked" -> Step("logout") /\ trail' = trail \cup {"expiredClick"}
         [] out = "notFound" -> Step("logout") /\ UNCHANGED trail
         [] out = "evalError" -> Fail(MsgTarget) /\ UNCHANGED trail
  /\ mainSame
  /\ UNCHANGED << retryVars, pageVars, netVars, isLoggedIn, pollI, navFailed, storeVars,
                  sheetVars, pureVars >>

\* if (!isLoggedIn): the logout click that probes for an expired session
CaptureExpiryProbe ==
  /\ InCapture("expiryProbe")
  /\ \E out \in {"clicked", "notFound", "evalError"} :
       CASE out = "clicked" -> Fail(MsgExpired) /\ trail' = trail \cup {"expiredClick"}
         [] out = "notFound" -> Step("logout") /\ UNCHANGED trail
         [] out = "evalError" -> Fail(MsgTarget) /\ UNCHANGED trail
  /\ mainSame
  /\ UNCHANGED << retryVars, pageVars, netVars, isLoggedIn, pollI, navFailed, storeVars,
                  sheetVars, pureVars >>

\* Step 4: the logout click; without it the login block is skipped
CaptureLogout ==
  /\ InCapture("logout")
  /\ \E out \in {"clicked", "notFound", "evalError"} :
       CASE out = "clicked" ->
              Step("login") /\ trail' = trail \cup {"logoutClick"} /\ UNCHANGED pollI
         [] out = "notFound" -> Step("poll") /\ pollI' = 0 /\ UNCHANGED trail
         [] out = "evalError" -> Fail(MsgTarget) /\ UNCHANGED << pollI, trail >>
  /\ mainSame
  /\ UNCHANGED << retryVars, pageVars, netVars, isLoggedIn, navFailed, storeVars,
                  sheetVars, pureVars >>

\* the portal issues the session cookies of a new login
FreshCookies == << Cookie("fresh", TRUE, Now + 1) >>

\* the login block: waitForSelector, click, submit and waitForNavigation;
\* every failure inside it is rethrown as the auto-fill error
CaptureLogin ==
  /\ InCapture("login")
  /\ trail' = trail \cup {"login"}
  /\ \/ /\ Step("poll")
        /\ pollI' = 0
        /\ pageCookies' = FreshCookies
        /\ UNCHANGED navFailed
     \/ /\ Fail(MsgAutofill)
        /\ \E timedOut \in BOOLEAN : navFailed' = (navFailed \/ timedOut)
        /\ UNCHANGED << pollI, pageCookies >>
  /\ mainSame
  /\ UNCHANGED << retryVars, pageVars, netVars, isLoggedIn, file, sheetVars, pureVars >>

\* variant: the captured value is returned without validateToken
ReturnUnvalidated ==
  /\ aResult' = Returned(captured)
  /\ apc' = "finally"

\* variant: the value seen first is validated, the slot's current value returned
ValidateFirstReturnLatest ==
  /\ aResult' = IF validateToken(firstObs).kind = "throw"
                  THEN Threw(validateToken(firstObs).err)
                  ELSE Returned(captured)
  /\ apc' = "finally"

\* validateToken(capturedToken); return capturedToken
ValidateAndReturn ==
  /\ aResult' = IF validateToken(captured).kind = "throw"
                  THEN Threw(validateToken(captured).err)
                  ELSE Returned(captured)
  /\ apc' = "finally"

\* the wait loop: one test of capturedToken, then sleep(500); after the loop
\* the throw when the slot is still empty.  In part_000 the validation and
\* the return follow the loop without a suspension point.
CapturePoll ==
  /\ InCapture("poll")
  /\ trail' = trail \cup {"poll"}
  /\ IF Truthy(captured)
       THEN /\ IF prog = "auto" THEN Step("save") ELSE ValidateAndReturn
            /\ UNCHANGED pollI
       ELSE IF pollI < PollLimit
       THEN Step("poll") /\ pollI' = pollI + 1
       ELSE Fail(MsgNotCaptured) /\ UNCHANGED pollI
  /\ mainSame
  /\ UNCHANGED << retryVars, pageVars, netVars, isLoggedIn, navFailed, storeVars,
                  sheetVars, pureVars >>

\* saveCookies(page): page.cookies() serialised into the session file; every
\* failure is caught and answered with `false`
saveCookies(jar, old, ok) == IF ok THEN FileArray(jar) ELSE old

\* Step 6 of captureTokenWithCookies: await saveCookies(page), whose boolean
\* is not read; then, without a further suspension point, the validation
\* and the return
CaptureSaveCookies ==
  /\ InCapture("save")
  /\ \E ok \in BOOLEAN : file' = saveCookies(pageCookies, file, ok)
  /\ trail' = trail \cup {"save"}
  /\ ValidateAndReturn
  /\ mainSame
  /\ UNCHANGED << retryVars, pageVars, netVars, isLoggedIn, pollI, navFailed,
                  pageCookies, sheetVars, pureVars >>

\* finally { await page.close() }, then the attempt completes into retryOperation
CaptureFinally ==
  /\ InCapture("finally")
  /\ openPages' = openPages \ {pageNo}
  /\ listening' = FALSE
  /\ OpDeliver(aResult)
  /\ aResult' = NoResult
  /\ LocalsDiscarded
  /\ UNCHANGED apc
  /\ mainSame
  /\ UNCHANGED << pageNo, navigated, missed, pending, nResp, storeVars, sheetVars,
                  pureVars >>

\* part_000 Step 3: const isLoggedIn = await page.evaluate(...)
CredCheckLogin ==
  /\ InCapture("checkLogin") /\ prog = "cred"
  /\ \E out \in {"loggedIn", "loggedOut", "evalError"} :
       /\ isLoggedIn' = (out = "loggedIn")
       /\ CASE out = "loggedIn" -> Step("credLogout")
            [] out = "loggedOut" -> Step("credLogin")
            [] out = "evalError" -> Fail(MsgTarget)
  /\ mainSame
  /\ UNCHANGED << retryVars, pageVars, netVars, pollI, navFailed, trail, storeVars,
                  sheetVars, pureVars >>

\* part_000 Step 4: the best-effort logout click
CredLogout ==
  /\ InCapture("credLogout")
  /\ \E out \in {"clicked", "notFound", "evalError"} :
       /\ IF out = "evalError" THEN Fail(MsgTarget) ELSE Step("credLogin")
       /\ trail' = IF out = "clicked" THEN trail \cup {"logoutClick"} ELSE trail
  /\ mainSame
  /\ UNCHANGED << retryVars, pageVars, netVars, isLoggedIn, pollI, navFailed, storeVars,
                  sheetVars, pureVars >>

\* part_000 Step 5: waitForSelector, type email and password, submit and
\* waitForNavigation; a failure propagates as it is
CredLogin ==
  /\ InCapture("credLogin")
  /\ \E out \in {"ok", "selectorTimeout", "navTimeout"} :
       /\ CASE out = "ok" -> Step("poll") /\ pageCookies' = FreshCookies
            [] out = "selectorTimeout" -> Fail(MsgSelector) /\ UNCHANGED pageCookies
            [] out = "navTimeout" -> Fail(MsgNavTimeout) /\ UNCHANGED pageCookies
       /\ navFailed' = (navFailed \/ out = "navTimeout")
  /\ pollI' = 0
  /\ trail' = trail \cup {"login"}
  /\ mainSame
  /\ UNCHANGED << retryVars, pageVars, netVars, isLoggedIn, file, sheetVars, pureVars >>

-----------------------------------------------------------------------------
(* setupCookies (index.js, SETUP mode): called by main directly, not       *)
(* through retryOperation                                                  *)

InSetup(at) == exitCode = -1 /\ mpc = "setup" /\ apc = at

\* const page = await browser.newPage()
SetupNewPage ==
  /\ InSetup("newPage")
  /\ \/ /\ pageNo' = pageNo + 1
        /\ openPages' = openPages \cup {pageNo + 1}
        /\ listening' = FALSE
        /\ navigated' = FALSE
        /\ Step("pageSetup")
        /\ UNCHANGED << mpc, mainErr, advised >>
     \/ /\ MainThrow(MsgTarget)
        /\ UNCHANGED << pageVars, attemptVars >>
  /\ UNCHANGED << prog, cfg, browser, mainBrowser, token, exitCode >>
  /\ UNCHANGED << retryVars, netVars, flowVars, storeVars, sheetVars, pureVars >>

\* await page.setViewport(...), which precedes the try block
SetupViewport ==
  /\ InSetup("pageSetup")
  /\ \/ Step("goto") /\ UNCHANGED << mpc, mainErr, advised >>
     \/ MainThrow(MsgTarget) /\ UNCHANGED attemptVars
  /\ UNCHANGED << prog, cfg, browser, mainBrowser, token, exitCode >>
  /\ UNCHANGED << retryVars, pageVars, netVars, flowVars, storeVars, sheetVars, pureVars >>

\* page.goto(CONFIG.portal.url, ...)
SetupGoto ==
  /\ InSetup("goto")
  /\ navigated' = TRUE
  /\ \/ Step("checkLogin") /\ UNCHANGED navFailed
     \/ Fail(MsgNavTimeout) /\ navFailed' = TRUE
  /\ mainSame
  /\ UNCHANGED << retryVars, pageNo, openPages, listening, netVars, isLoggedIn, pollI,
                  trail, storeVars, sheetVars, pureVars >>

\* sleep(60000), the logged-in test and the throw when no login is detected
SetupCheckLogin ==
  /\ InSetup("checkLogin")
  /\ \E out \in {"loggedIn", "loggedOut", "evalError"} :
       /\ isLoggedIn' = (out = "loggedIn")
       /\ CASE out = "loggedIn" -> Step("save") /\ pageCookies' = FreshCookies
            [] out = "loggedOut" -> Fail(MsgNoLogin) /\ UNCHANGED pageCookies
            [] out = "evalError" -> Fail(MsgTarget) /\ UNCHANGED pageCookies
  /\ mainSame
  /\ UNCHANGED << retryVars, pageVars, netVars, pollI, navFailed, trail, file,
                  sheetVars, pureVars >>

\* await saveCookies(page); the returned boolean is not read
SetupSave ==
  /\ InSetup("save")
  /\ \E ok \in BOOLEAN : file' = saveCookies(pageCookies, file, ok)
  /\ aResult' = Returned(Undefined)
  /\ apc' = "finally"
  /\ mainSame
  /\ UNCHANGED << retryVars, pageVars, netVars, flowVars, pageCookies, sheetVars,
                  pureVars >>

\* finally { await page.close() }, then setupCookies completes into main
SetupFinally ==
  /\ InSetup("finally")
  /\ openPages' = openPages \ {pageNo}
  /\ listening' = FALSE
  /\ IF aResult.kind = "throw"
       THEN MainThrow(aResult.err)
       ELSE mpc' = "success" /\ UNCHANGED << mainErr, advised >>
  /\ aResult' = NoResult
  /\ LocalsDiscarded
  /\ UNCHANGED apc
  /\ UNCHANGED << prog, cfg, browser, mainBrowser, token, exitCode >>
  /\ UNCHANGED << retryVars, pageNo, navigated, missed, pending, nResp, storeVars,
                  sheetVars, pureVars >>

-----------------------------------------------------------------------------
(* Network responses and the response listener *)

T1 == Str(<< "e", "y", "J", ".", "a", "." >>)
T2 == Str(<< "e", "y", "J", ".", ".", "a" >>)
TBad == Str(<< "a", ".", "a" >>)

\* a response: does its URL contain '/v5/token', is its content type JSON,
\* and the access_token field its body carries (Undefined: none)
Resp(u, j, tok) == [url |-> u, json |-> j, tok |-> tok]

ResponseKinds ==
  { Resp(FALSE, TRUE, T1), Resp(TRUE, FALSE, T1) } \cup
  { Resp(TRUE, TRUE, t) : t \in {Undefined, T1, T2, TBad} }

\* url.includes('/v5/token') and contentType.includes('application/json'):
\* the listener reaches `await response.json()`
ListenerReads(r) == r.url /\ r.json

\* variant: the catch block of the listener resets the slot
LatchStoreClearsOnError(cur, parsed, tok) ==
  IF parsed THEN (IF Truthy(tok) THEN tok ELSE cur) ELSE Null

\* if (data.access_token) capturedToken = data.access_token; when
\* response.json() rejects, control is in the listener's catch block
LatchStore(cur, parsed, tok) ==
  IF parsed /\ Truthy(tok) THEN tok ELSE cur

\* variant: capturedToken is one variable shared by all attempts and pages
WritesSharedSlot(pg) == TRUE

\* capturedToken is declared inside the attempt's function: the callback of
\* a page writes the variable of the attempt that opened the page, which is
\* the one the running attempt reads only when the page is the current one
WritesLiveSlot(pg) == pg = pageNo /\ pageNo \in openPages

ResponseEvent(limit) ==
  /\ exitCode = -1
  /\ pageNo \in openPages /\ navigated
  /\ nResp < limit
  /\ nResp' = nResp + 1
  /\ \E r \in ResponseKinds :
       IF ~listening
         THEN missed' = TRUE /\ UNCHANGED pending
         ELSE /\ UNCHANGED missed
              /\ pending' = IF ListenerReads(r)
                              THEN pending \cup {[page |-> pageNo, resp |-> r]}
                              ELSE pending
  /\ UNCHANGED << captured, firstObs, capturedOn >>
  /\ mainSame
  /\ UNCHANGED << retryVars, attemptVars, pageVars, flowVars, storeVars, sheetVars,
                  pureVars >>

\* the page emits a response event; the listener runs up to response.json()
NetResponse == ResponseEvent(MaxResponses)

\* response.json() settles (parsed: it resolved) and the listener callback
\* runs to its end; a callback of an earlier attempt writes the closure
\* variable of that attempt, which nothing reads any more
ListenerResume ==
  /\ exitCode = -1
  /\ \E p \in pending, parsed \in BOOLEAN :
       /\ pending' = pending \ {p}
       /\ IF WritesLiveSlot(p.page)
            THEN /\ captured' = LatchStore(captured, parsed, p.resp.tok)
                 /\ capturedOn' = IF parsed /\ Truthy(p.resp.tok)
                                    THEN p.page ELSE capturedOn
                 /\ firstObs' = IF parsed /\ Truthy(p.resp.tok) /\ ~Truthy(firstObs)
                                  THEN p.resp.tok ELSE firstObs
                 /\ trail' = IF parsed THEN trail ELSE trail \cup {"parseFail"}
            ELSE UNCHANGED << captured, capturedOn, firstObs, trail >>
  /\ UNCHANGED << missed, nResp >>
  /\ mainSame
  /\ UNCHANGED << retryVars, attemptVars, pageVars, isLoggedIn, pollI, navFailed,
                  storeVars, sheetVars, pureVars >>

-----------------------------------------------------------------------------
(* The program *)

Configs(p) ==
  CASE p = "setup" -> { AllOk }
    [] p = "auto" -> { AllOk, [AllOk EXCEPT !.acct = FALSE], [AllOk EXCEPT !.sheet = FALSE] }
    [] p = "cred" -> { AllOk, [AllOk EXCEPT !.acct = FALSE], [AllOk EXCEPT !.sheet = FALSE],
                       [AllOk EXCEPT !.creds = FALSE] }

StoredFiles ==
  { FileAbsent,
    FileArray(<< Cookie("v", TRUE, Now + 1) >>),
    FileArray(<< Cookie("v", TRUE, Now - 1) >>) }

Init ==
  /\ ProgramAtStart
  /\ prog \in {"setup", "auto", "cred"}
  /\ cfg \in Configs(prog)
  /\ file \in (IF prog = "auto" THEN StoredFiles ELSE { FileAbsent })
  /\ vtToken = Null /\ vtResult = NoResult
  /\ lcInput = FALSE /\ lcResult = NoLoad

Next ==
  \/ MainBegin \/ MainBeginCred \/ MainLaunched \/ MainCaptured \/ MainPublished
  \/ MainRetryFailed \/ MainExitSuccess \/ MainExitFailure
  \/ RetrySleep \/ RetryNext
  \/ InitBrowser \/ UpdateSheet
  \/ CaptureNewPage \/ CapturePageSetup \/ CaptureLoadCookies \/ CaptureGoto
  \/ CaptureVerify \/ CaptureExpiryProbe \/ CaptureLogout \/ CaptureLogin
  \/ CapturePoll \/ CaptureSaveCookies \/ CaptureFinally
  \/ CredCheckLogin \/ CredLogout \/ CredLogin
  \/ SetupNewPage \/ SetupViewport \/ SetupGoto \/ SetupCheckLogin \/ SetupSave
  \/ SetupFinally
  \/ NetResponse \/ ListenerResume

Spec == Init /\ [][Next]_vars

\* the steps of main and of the operations it awaits: every await in them
\* settles (the navigation, selector and sleep waits return or time out), so
\* a step of the main flow that stays enabled is eventually taken; the
\* network is under no such obligation
MainFlow ==
  \/ MainBegin \/ MainBeginCred \/ MainLaunched \/ MainCaptured \/ MainPublished
  \/ MainRetryFailed \/ MainExitSuccess \/ MainExitFailure
  \/ RetrySleep \/ RetryNext
  \/ InitBrowser \/ UpdateSheet
  \/ CaptureNewPage \/ CapturePageSetup \/ CaptureLoadCookies \/ CaptureGoto
  \/ CaptureVerify \/ CaptureExpiryProbe \/ CaptureLogout \/ CaptureLogin
  \/ CapturePoll \/ CaptureSaveCookies \/ CaptureFinally
  \/ CredCheckLogin \/ CredLogout \/ CredLogin
  \/ SetupNewPage \/ SetupViewport \/ SetupGoto \/ SetupCheckLogin \/ SetupSave
  \/ SetupFinally

SpecLive == Init /\ [][Next]_vars /\ WF_vars(MainFlow)

-----------------------------------------------------------------------------
(* One capture attempt checked alone, with more network traffic: the state *)
(* main is in when the first invocation of the capture operation starts.   *)

InitAttempt ==
  /\ prog \in {"auto", "cred"}
  /\ cfg = AllOk
  /\ mpc = "capture" /\ browser = "open" /\ mainBrowser = TRUE
  /\ mainErr = <<>> /\ token = Null /\ exitCode = -1 /\ advised = FALSE
  /\ rCtx = "Token Capture" /\ rState = "call" /\ attempt = 1 /\ lastError = <<>>
  /\ rValue = NoResult /\ rHist = <<>> /\ lastFail = <<>> /\ rDelays = <<>>
  /\ rExpired = 0
  /\ apc = "newPage" /\ aResult = NoResult
  /\ pageNo = 0 /\ openPages = {} /\ listening = FALSE /\ navigated = FALSE
  /\ missed = FALSE /\ captured = Null /\ pending = {} /\ firstObs = Null
  /\ nResp = 0 /\ isLoggedIn = FALSE /\ pollI = 0 /\ navFailed = FALSE
  /\ trail = {} /\ capturedOn = 0
  /\ pageCookies = <<>>
  /\ sheet = EmptySheet /\ nPublish = 0
  /\ file \in (IF prog = "auto" THEN StoredFiles ELSE { FileAbsent })
  /\ vtToken = Null /\ vtResult = NoResult
  /\ lcInput = FALSE /\ lcResult = NoLoad

AttemptResponse == ResponseEvent(MaxAttemptResponses)

NextAttempt ==
  \/ CaptureNewPage \/ CapturePageSetup \/ CaptureLoadCookies \/ CaptureGoto
  \/ CaptureVerify \/ CaptureExpiryProbe \/ CaptureLogout \/ CaptureLogin
  \/ CapturePoll \/ CaptureSaveCookies \/ CaptureFinally
  \/ CredCheckLogin \/ CredLogout \/ CredLogin
  \/ AttemptResponse \/ ListenerResume

SpecAttempt == InitAttempt /\ [][NextAttempt]_vars

-----------------------------------------------------------------------------
(* Properties *)

InAttempt == rCtx = "Token Capture" /\ rState = "call" /\ pageNo \in openPages

\* C1: within one attempt, when the listener has read access_token values
\* from matching JSON responses, the value the main flow reads from the token
\* slot and returns is the first one read: no later matching response has
\* overwritten the slot.
C1_SlotKeepsFirstToken ==
  (InAttempt /\ apc = "finally" /\ aResult.kind = "return") => aResult.val = firstObs

\* C2: retryOperation invokes the operation at most maxAttempts times, makes
\* no invocation after a successful one, returns only after a successful
\* invocation, and throws only after maxAttempts failed invocations, the
\* thrown message then holding the message of the last failure.
C2_RetryContract ==
  /\ Len(rHist) <= maxAttempts
  /\ \A i \in 1..(Len(rHist) - 1) : rHist[i] = "fail"
  /\ rState = "returned" =>
       /\ Len(rHist) >= 1 /\ rHist[Len(rHist)] = "ok"
       /\ rValue.kind = "return"
  /\ rState = "thrown" =>
       /\ Len(rHist) = maxAttempts
       /\ \A i \in 1..Len(rHist) : rHist[i] = "fail"
       /\ rValue.kind = "throw"
       /\ rValue.err = << rCtx, "failed after 3 attempts:" >> \o lastFail

\* all three capture attempts failed, the last one with the session-expired
\* error, and retryOperation has thrown
C2_Witness ==
  /\ rState = "thrown" /\ rCtx = "Token Capture"
  /\ lastFail = MsgExpired

\* C3: the sleeps of one retryOperation call are 2000 ms after the first
\* failed invocation and 4000 ms after the second, one sleep per failed
\* invocation that is not the last allowed one, none after a success and
\* none after failed invocation number maxAttempts.
C3_Backoff ==
  /\ rDelays \in { <<>>, << 2000 >>, << 2000, 4000 >> }
  /\ Len(rDelays) <= maxAttempts - 1
  /\ rState = "call" => Len(rDelays) = Len(rHist)
  /\ rState = "returned" => Len(rDelays) = Len(rHist) - 1
  /\ rState = "thrown" => Len(rDelays) = maxAttempts - 1 /\ Len(rHist) = maxAttempts

\* a permanently failing operation: three invocations, sleeps of 2000 and 4000
C3_Witness ==
  /\ rState = "thrown"
  /\ rDelays = << 2000, 4000 >>
  /\ Len(rHist) = 3

\* the claim's reading of a record: expiresAt present and before load time
ExpiredRecord(c) == c.hasExp /\ c.expires < Now

StillValid(c) == ~ExpiredRecord(c)

\* C4: for a stored list of N records of which K are expired, loadCookies
\* installs exactly the N-K records whose expiresAt is absent or in the
\* future, in stored order, and returns true exactly when N-K >= 1 (stated
\* for the calls in which the browser accepts the records).
C4_InstallsExactlyTheUnexpired ==
  (lcResult.kind # "none" /\ file.kind = "array" /\ lcInput) =>
     /\ pageCookies = SelectSeq(file.cookies, StillValid)
     /\ lcResult.ret = (Len(SelectSeq(file.cookies, StillValid)) >= 1)

\* C5: loadCookies never raises, and when it returns false the page holds
\* no installed credential: credentials are installed only when it returns
\* true.
C5_FalseInstallsNothing ==
  lcResult.kind # "none" =>
     /\ lcResult.kind = "return"
     /\ ~lcResult.ret => pageCookies = <<>>
     /\ file.kind # "array" => ~lcResult.ret
     /\ (file.kind = "array" /\ file.cookies = <<>>) => ~lcResult.ret

\* every stored record is expired: loadCookies returned false, nothing installed
C5_Witness ==
  /\ lcResult.kind = "return" /\ ~lcResult.ret
  /\ file.kind = "array" /\ Len(file.cookies) >= 2
  /\ \A i \in 1..Len(file.cookies) : file.cookies[i].expires = Now - 1
  /\ lcInput
  /\ pageCookies = <<>>

RECURSIVE DotCount(_)
DotCount(s) ==
  IF s = <<>> THEN 0 ELSE (IF Head(s) = "." THEN 1 ELSE 0) + DotCount(Tail(s))

WellFormed(v) ==
  /\ v.t = "string"
  /\ Len(v.s) >= 3
  /\ v.s[1] = "e" /\ v.s[2] = "y" /\ v.s[3] = "J"
  /\ DotCount(v.s) = 2

\* C6: validateToken returns true exactly for the non-empty strings that
\* begin with "eyJ" and hold exactly two dots (three segments); for every
\* other candidate it throws; the call changes nothing else.
C6_ValidateExact ==
  vtResult.kind # "none" =>
     /\ WellFormed(vtToken) => vtResult = Returned(JSTrue)
     /\ ~WellFormed(vtToken) => vtResult.kind = "throw"
     /\ ProgramAtStart

\* a six-character token of three segments was accepted
C6_Witness ==
  /\ vtResult = Returned(JSTrue)
  /\ vtToken = Str(<< "e", "y", "J", ".", "a", "." >>)

\* C7: in a capture attempt of either program, a page on which a navigation
\* has been issued has the response listener attached, and no response has
\* occurred on a page without a listener.
C7_ListenerBeforeNavigation ==
  prog \in {"auto", "cred"} =>
     /\ ~missed
     /\ (pageNo \in openPages /\ navigated) => listening

\* a response of the first navigations was caught by the listener
C7_Witness ==
  /\ prog = "auto" /\ InAttempt
  /\ navigated /\ listening
  /\ apc = "verify"
  /\ captured = T1

\* C8: at most one page is open, and no page is open once the attempt that
\* opened it has ended: not while retryOperation sleeps or starts the next
\* attempt, not after it has returned or thrown, not after setupCookies has
\* ended, not when the process has exited.
C8_PagesClosedOnEveryExit ==
  /\ Cardinality(openPages) <= 1
  /\ (rCtx = "Token Capture" /\ rState \in {"sleep", "next", "returned", "thrown"})
        => openPages = {}
  /\ mpc \in {"publish", "success", "catch", "exited"} => openPages = {}

\* C9: when the process has exited after the browser was launched, the
\* browser has been closed.
C9_BrowserClosedAtExit ==
  (exitCode # -1 /\ browser # "none") => browser = "closed"

ConfigMissing ==
  \/ prog = "auto" /\ ~(cfg.acct /\ cfg.sheet)
  \/ prog = "cred" /\ ~(cfg.acct /\ cfg.sheet /\ cfg.creds)

\* the retryOperation call main made last ended with maxAttempts failures
LastRetryExhausted == Len(rHist) = maxAttempts /\ rHist[maxAttempts] = "fail"

\* C10: the process exits with 0 or 1; with 0 only when no error reached
\* main and, in the token-harvesting modes, a token was captured and
\* published; with 1 whenever a required configuration value is missing or
\* the browser launch, the token capture or the publish exhausted its
\* retries.
C10_ExitCode ==
  /\ exitCode \in {-1, 0, 1}
  /\ exitCode = 0 =>
       /\ mainErr = <<>>
       /\ ~ConfigMissing
       /\ ~LastRetryExhausted
       /\ prog \in {"auto", "cred"} =>
            /\ Truthy(token)
            /\ nPublish >= 1
            /\ sheet.a1 = token
  /\ (exitCode # -1 /\ (ConfigMissing \/ LastRetryExhausted)) => exitCode = 1

\* the publish exhausted its retries after a token was captured: exit code 1
C10_Witness ==
  /\ exitCode = 1
  /\ rCtx = "Sheet Update" /\ LastRetryExhausted
  /\ Truthy(token)

\* C11: in AUTO mode, once loadCookies has returned false in an attempt, the
\* attempt is on its way out with the error that advises SETUP MODE: no
\* navigation was issued on its page, no logout or login interaction and no
\* read of the token slot happened, and saveCookies was not called.
C11_LoadFalseShortCircuits ==
  /\ "loadFalse" \in trail =>
       /\ prog = "auto" /\ apc = "finally"
       /\ aResult = Threw(MsgCookies)
       /\ ~navigated
       /\ trail = {"loadFalse"}
  /\ (apc = "finally" /\ aResult = Threw(MsgCookies)) => "loadFalse" \in trail

\* the second attempt of a run whose session file holds only an expired record
C11_Witness ==
  /\ "loadFalse" \in trail
  /\ attempt = 2
  /\ file = FileArray(<< Cookie("v", TRUE, Now - 1) >>)

\* C12: in AUTO mode, an attempt whose login verification succeeded reads the
\* token slot in the wait loop only after it has clicked logout and has gone
\* through the login block.
C12_LoginTransitionBeforePolling ==
  (prog = "auto" /\ isLoggedIn /\ "poll" \in trail) =>
     {"logoutClick", "login"} \subseteq trail

\* C13: in AUTO mode, once the logout click that follows a failed login
\* verification has succeeded, the attempt is on its way out with the
\* 'Session expired' error: it has entered neither the logout-login cycle nor
\* the wait loop and has not called saveCookies; and only that click produces
\* the error.
C13_SessionExpiredFailsFast ==
  /\ "expiredClick" \in trail =>
       /\ prog = "auto" /\ ~isLoggedIn
       /\ apc = "finally" /\ aResult = Threw(MsgExpired)
       /\ trail \cap {"loadFalse", "logoutClick", "login", "poll", "save"} = {}
  /\ (apc = "finally" /\ aResult = Threw(MsgExpired)) => "expiredClick" \in trail

\* the third attempt ends with the session-expired error
C13_Witness ==
  /\ "expiredClick" \in trail
  /\ aResult = Threw(MsgExpired)
  /\ attempt = 3

\* time the wait loop of the current attempt has slept so far
PollWaitedMs == pollI * PollSleepMs

\* C14 as stated: the wait loop reads the token slot every 500 ms for at most
\* about 15 polls, and gives up with the token-not-captured error after 10 to
\* 15 polls; an attempt never returns with an empty slot.
C14_PollBudgetAsStated ==
  /\ pollI <= 15
  /\ (apc = "finally" /\ aResult = Threw(MsgNotCaptured)) =>
        pollI \in 10..15
  /\ (apc = "finally" /\ aResult.kind = "return") => Truthy(aResult.val)

\* C14 amended: the wait loop sleeps 500 ms between reads of the token slot,
\* at most 30 times (15 s) in index.js and 20 times (10 s) in part_000; it
\* gives up with the token-not-captured error only after the last of these
\* sleeps; an attempt never returns with an empty slot.
C14_PollBudget ==
  /\ pollI <= (IF prog = "auto" THEN 30 ELSE 20)
  /\ PollWaitedMs <= (IF prog = "auto" THEN 15000 ELSE 10000)
  /\ (apc = "finally" /\ aResult = Threw(MsgNotCaptured)) =>
        /\ pollI = (IF prog = "auto" THEN 30 ELSE 20)
        /\ "poll" \in trail
  /\ (apc = "finally" /\ aResult.kind = "return" /\ mpc = "capture") =>
        /\ Truthy(aResult.val)
        /\ "poll" \in trail

\* an AUTO attempt gave up after the login transition and 30 sleeps
C14_Witness ==
  /\ prog = "auto" /\ apc = "finally"
  /\ aResult = Threw(MsgNotCaptured)
  /\ pollI = 30
  /\ "login" \in trail

\* C15: in AUTO mode an attempt that returns a token has before that written
\* the cookies of its page to the session file: at the return the file holds
\* the page's current cookies.
C15_SessionSavedBeforeReturn ==
  (prog = "auto" /\ apc = "finally" /\ aResult.kind = "return") =>
     file = FileArray(pageCookies)

\* the running capture attempt is at its first statement after the page setup
AtFirstStep ==
  /\ rCtx = "Token Capture" /\ rState = "call"
  /\ apc = (IF prog = "auto" THEN "load" ELSE "goto")

\* C16: every capture attempt, a retry included, starts at browser.newPage()
\* and reaches its first step on a page of its own on which nothing has been
\* navigated, with an empty token slot and no step performed; the value in
\* the slot always comes from a response of the attempt's own page, so a
\* callback of an earlier attempt that completes late changes nothing and the
\* token an attempt returns was read on that attempt's page.
C16_AttemptsAreIsolated ==
  /\ Truthy(captured) => (capturedOn = pageNo /\ pageNo \in openPages)
  /\ AtFirstStep =>
       /\ captured = Null /\ capturedOn = 0 /\ firstObs = Null
       /\ trail = {} /\ pollI = 0 /\ ~navigated
       /\ pageNo \in openPages /\ pageNo <= attempt
       /\ \A p \in pending : p.page < pageNo
  /\ (rCtx = "Token Capture" /\ rState \in {"sleep", "next"}) =>
       (captured = Null /\ trail = {})
  /\ (mpc = "capture" /\ apc = "finally" /\ aResult.kind = "return") =>
       capturedOn = pageNo

\* the second attempt runs on the second page while a callback of the first
\* attempt's page is still suspended in response.json()
C16_Witness ==
  /\ rCtx = "Token Capture" /\ rState = "call" /\ attempt = 2
  /\ pageNo = 2 /\ apc = "poll"
  /\ \E p \in pending : p.page = 1 /\ Truthy(p.resp.tok)
  /\ captured = Null

\* C17: updateSheet runs only inside retryOperation('Sheet Update'), which
\* main starts only after the capture returned a token; that token passes
\* validateToken; a successful update leaves the fixed range holding the
\* pair (token, ISO timestamp) written in RAW mode; when the capture has not
\* returned a token (its retries exhausted included) nothing is published.
C17_PublisherContract ==
  /\ rCtx = "Sheet Update" =>
       /\ prog \in {"auto", "cred"}
       /\ mpc \in {"publish", "success", "catch", "exited"}
       /\ validateToken(token) = Returned(JSTrue)
       /\ Len(rHist) <= maxAttempts
  /\ rCtx # "Sheet Update" => (nPublish = 0 /\ sheet = EmptySheet /\ token = Null)
  /\ nPublish = 0 => sheet = EmptySheet
  /\ nPublish >= 1 =>
       /\ nPublish = 1
       /\ sheet = [a1 |-> token, b1 |-> "ISO-8601", mode |-> "RAW"]
  /\ (mpc \in {"catch", "exited"} /\ rCtx = "Token Capture") => nPublish = 0

\* the third invocation of updateSheet wrote the token captured by part_000
C17_Witness ==
  /\ prog = "cred" /\ nPublish = 1
  /\ sheet.a1 = T2
  /\ rCtx = "Sheet Update" /\ Len(rHist) = 3

ConfigMessages == { MsgNoAccount, MsgNoSheetId, MsgNoCreds }

\* C18: in a run of the token programs with a required environment value
\* missing, no capture attempt and no publish is ever started, main catches
\* either the configuration error, thrown by main itself and not wrapped by
\* retryOperation, or the exhausted browser launch, and the process exits
\* with code 1.
C18_ConfigErrorIsFatal ==
  ConfigMissing =>
     /\ rCtx \in {"none", "Browser Init"}
     /\ pageNo = 0 /\ nPublish = 0 /\ token = Null
     /\ exitCode \in {-1, 1}
     /\ mpc \in {"begin", "launch", "catch", "exited"}
     /\ mpc \in {"catch", "exited"} =>
          \/ mainErr \in ConfigMessages /\ rState = "idle"
          \/ mainErr = << "Browser Init", "failed after 3 attempts:" >> \o MsgLaunch
     /\ (mainErr \in ConfigMessages /\ prog = "cred") => (browser = "none" /\ rHist = <<>>)

\* AUTO mode without SHEET_ID: the browser was launched, then main threw
C18_Witness ==
  /\ prog = "auto" /\ ~cfg.sheet
  /\ exitCode = 1
  /\ mainErr = MsgNoSheetId
  /\ browser = "open"

\* C19: a capture attempt in which a navigation timed out, at page.goto, in
\* verifyCookiesValid or in the login block, ends by throwing: it never
\* returns a token.
C19_NavigationTimeoutFailsAttempt ==
  (mpc = "capture" /\ apc = "finally" /\ navFailed) => aResult.kind = "throw"

\* one step of the program as the response listener's contract sees it
ListenerStepContract ==
  \* only responses of the token URL with a JSON content type are read
  /\ \A p \in pending' : p.resp.url /\ p.resp.json
  \* the arrival of a response, of whatever kind, does not write the slot
  /\ nResp' # nResp => (captured' = captured /\ listening' = listening)
  \* a rejected response.json() leaves the slot, the listener and the
  \* attempt's control flow as they were
  /\ ("parseFail" \in trail' /\ "parseFail" \notin trail) =>
        /\ captured' = captured /\ capturedOn' = capturedOn
        /\ listening' = listening
        /\ apc' = apc /\ aResult' = aResult /\ rState' = rState
  \* the slot changes only to the truthy access_token of a completed read,
  \* or to empty when the attempt's locals are set up or discarded
  /\ captured' # captured =>
        \/ \E p \in pending \ pending' : Truthy(p.resp.tok) /\ captured' = p.resp.tok
        \/ captured' = Null /\ pending' = pending

\* C20: a failure of response.json() in the listener is swallowed: the token
\* slot, the subscription and the attempt's control flow are unchanged by
\* it, and responses that do not match the URL, are not JSON or carry no
\* access_token never change the slot; only the truthy access_token of a
\* matching response that was read does.
C20_ListenerFailuresSwallowed == [][ListenerStepContract]_vars

\* both responses of the attempt were read: one failed to parse, the other
\* one's token is in the slot while the attempt polls
C20_Witness ==
  /\ "parseFail" \in trail
  /\ captured = T1 /\ capturedOn = pageNo
  /\ nResp = 2 /\ pending = {}
  /\ listening /\ apc = "poll"

\* every invocation made so far by the running retryOperation call failed
\* with the 'Session expired' error
OnlyExpiredFailures == rExpired >= 1 /\ rExpired = Len(rHist)

\* C21: retryOperation retries a 'Session expired' failure like any other:
\* a call whose invocations all fail with it gives up only after maxAttempts
\* invocations; its terminal error then ends with the session-expired
\* message, main's catch block prints the SETUP MODE advice on it, and the
\* process exits with code 1.
C21_SessionExpiredExhaustsRetries ==
  /\ rExpired <= Len(rHist) /\ rExpired <= maxAttempts
  /\ rExpired >= 1 => (prog = "auto" /\ rCtx = "Token Capture")
  /\ (OnlyExpiredFailures /\ rState \in {"thrown", "idle"}) =>
       /\ rExpired = maxAttempts
       /\ rValue = Threw(<< "Token Capture", "failed after 3 attempts:" >> \o MsgExpired)
  /\ (OnlyExpiredFailures /\ mpc \in {"catch", "exited"}) =>
       mainErr = << "Token Capture", "failed after 3 attempts:" >> \o MsgExpired
  /\ (OnlyExpiredFailures /\ exitCode # -1) => (exitCode = 1 /\ advised)
  /\ advised => (exitCode = 1 /\ prog # "cred")

\* three attempts failed with the session-expired error; the advice was printed
C21_Witness ==
  /\ rExpired = 3 /\ Len(rHist) = 3
  /\ exitCode = 1 /\ advised
  /\ rDelays = << 2000, 4000 >>

\* C22: in AUTO mode an attempt whose login verification failed goes through
\* no login block and ends by throwing: it never returns a token.
C22_UnverifiedAttemptFails ==
  (prog = "auto" /\ "verifyFalse" \in trail) =>
     /\ "login" \notin trail
     /\ apc = "finally" => aResult.kind = "throw"

\* no capture attempt of this run has returned a token so far
NoAttemptReturned ==
  /\ rCtx \in {"none", "Browser Init", "Token Capture"}
  /\ rState # "returned" \/ rCtx # "Token Capture"
  /\ ~(rCtx = "Token Capture" /\ apc = "finally" /\ aResult.kind = "return")

\* C23: in AUTO mode, as long as no capture attempt has returned a token the
\* session file holds what it held when the run started: an attempt that
\* ends in failure has not overwritten it.
C23_FailedAttemptKeepsSessionFile ==
  (prog = "auto" /\ NoAttemptReturned) => file \in StoredFiles

\* C24: whatever the listener wrote and whenever it wrote it, the value a
\* capture attempt returns, and retryOperation hands to main, is a value
\* validateToken accepts: validation and return read the token slot with no
\* suspension point between them.
C24_ReturnedValueIsValidated ==
  /\ (rCtx = "Token Capture" /\ apc = "finally" /\ aResult.kind = "return") =>
       validateToken(aResult.val) = Returned(JSTrue)
  /\ (rCtx = "Token Capture" /\ rState = "returned") =>
       (rValue.kind = "return" /\ validateToken(rValue.val) = Returned(JSTrue))

\* the slot first held a value validateToken rejects, a second response
\* overwrote it, and the AUTO attempt returned the second value after the save
C24_Witness ==
  /\ prog = "auto" /\ apc = "finally"
  /\ firstObs = TBad /\ aResult = Returned(T2)
  /\ "save" \in trail
  /\ nResp = 2 /\ pending = {}

\* C25: a SETUP mode run that exits with code 0 detected a login and wrote
\* the page's cookies to the session file.
C25_SetupSuccessMeansSaved ==
  (prog = "setup" /\ exitCode = 0) =>
     /\ pageCookies # <<>>
     /\ file = FileArray(pageCookies)

\* position of a retryOperation call in main's sequence of stages
StageRank(ctx) ==
  CASE ctx = "none" -> 0
    [] ctx = "Browser Init" -> 1
    [] ctx = "Token Capture" -> 2
    [] ctx = "Sheet Update" -> 3

\* each stage is invoked at most maxAttempts times, runs only after the
\* stages before it succeeded, and nothing is invoked after a publish
StagesBounded ==
  /\ Len(rHist) <= maxAttempts /\ attempt <= maxAttempts + 1
  /\ pageNo <= maxAttempts
  /\ StageRank(rCtx) >= 2 => (browser = "open" /\ mainBrowser)
  /\ StageRank(rCtx) >= 3 => (Truthy(token) /\ pageNo >= 1)
  /\ nPublish >= 1 =>
       (nPublish = 1 /\ rCtx = "Sheet Update" /\ rState \in {"returned", "idle"})
  /\ exitCode # -1 => mpc = "exited"

\* a retryOperation call starts only as the next stage, after the call
\* before it has returned
StagesInOrder ==
  rCtx' # rCtx =>
     /\ StageRank(rCtx') = StageRank(rCtx) + 1
     /\ rCtx # "none" => rState = "returned"
     /\ rState' = "call" /\ attempt' = 1 /\ rHist' = <<>>

\* C26: with every wait of the main flow settling, every run ends in a
\* process exit; launch, capture and publish are each invoked at most
\* maxAttempts times, in this order, a stage starting only after the stage
\* before it returned, and nothing is invoked after a successful publish.
C26_RunTerminatesInOrder ==
  /\ []StagesBounded
  /\ [][StagesInOrder]_vars
  /\ <>(exitCode # -1)

\* a run that needed three launches, three captures and three updates
C26_Witness ==
  /\ exitCode = 0 /\ nPublish = 1
  /\ rCtx = "Sheet Update" /\ Len(rHist) = 3
  /\ pageNo = 3 /\ rDelays = << 2000, 4000 >>

=============================================================================
